---- MODULE Spec2Model ----
(***************************************************************************)
(* A model of the simparse parser-combinator library                       *)
(* (src/include/simparse.hpp).                                             *)
(*                                                                         *)
(* A parser is a closure invoked on a mutable cursor (a std::string        *)
(* iterator).  It returns a value (a char or a std::string) or throws      *)
(* std::runtime_error; the cursor is where the closure left it.  The only   *)
(* other exception is std::bad_alloc from the unbounded growth of many's   *)
(* result; no catch of the library matches it.                             *)
(*                                                                         *)
(* Characters are their byte values (0..255).  The buffer `str` is the     *)
(* contents of the std::string; the byte after the last character is the   *)
(* terminating zero, which the library reads through the end iterator.     *)
(* Cursor positions are 1-based: position Len(str)+1 is the end iterator.  *)
(***************************************************************************)
EXTENDS Integers, Sequences, FiniteSets

(***************************************************************************)
(* Bounds of the model.                                                    *)
(***************************************************************************)
MaxLen == 3      \* longest input buffer explored
MaxLit == 2      \* longest literal given to string()
MaxRep == 2      \* largest n given to rep()
MaxCalls == 3    \* invocations of the parser on one cursor
MaxHeap == 60    \* bytes of the largest block operator new grants; the
                 \* blocks of the library's error messages (49 bytes at
                 \* most for the explored literals) are granted

(***************************************************************************)
(* Program constants.                                                      *)
(***************************************************************************)
Sentinel == 0        \* '\0', simparse.hpp:16
CharModulus == 256   \* a char holds one byte
\* Characters a std::string holds inside the object: std::string result;
\* (simparse.hpp:66) starts with this capacity and no heap block.
InlineCapacity == 15

\* Characters the explored inputs are made of: '\0', '1', 'a'.
InputChars == {Sentinel, 49, 97}
\* Characters the explored literals are made of (a literal built from a C
\* string holds no zero byte).
LitChars == InputChars \ {Sentinel}

Max(a, b) == IF a >= b THEN a ELSE b
\* The element of a one-element set.
Only(S) == CHOOSE x \in S : TRUE

(***************************************************************************)
(* Values returned by parsers: a char (satisfy and its instances) or a     *)
(* std::string.  A char is kept as the one-element sequence of its byte.   *)
(***************************************************************************)
Chr(c) == [char |-> TRUE, s |-> <<c>>]
Str(s) == [char |-> FALSE, s |-> s]
NoValue == Str(<<>>)

\* result += v : std::string::operator+= appends a char or a string.
StrAppend(result, v) == result \o v.s

\* auto result = f(it); result += g(it);   (operator+, lines 167-168)
\* On a char, += is integer addition converted back to char.
PlusValue(v, w) ==
    IF v.char THEN Chr((v.s[1] + w.s[1]) % CharModulus)
    ELSE Str(v.s \o w.s)

(***************************************************************************)
(* Outcome of one invocation: "ok" (returned value), "fail" (threw         *)
(* std::runtime_error), "bad_alloc" (threw std::bad_alloc, which is not a  *)
(* std::runtime_error) or "hang" (never returns).  pos is the cursor       *)
(* afterwards, hi the furthest position the cursor held meanwhile.         *)
(***************************************************************************)
Ok(v, i, h) == [outcome |-> "ok", value |-> v, pos |-> i, hi |-> h]
Fail(i, h) == [outcome |-> "fail", value |-> NoValue, pos |-> i, hi |-> h]
Hang(i, h) == [outcome |-> "hang", value |-> NoValue, pos |-> i, hi |-> h]
BadAlloc(i, h) ==
    [outcome |-> "bad_alloc", value |-> NoValue, pos |-> i, hi |-> h]

\* *str_iter : the character under the cursor; the end iterator of a
\* std::string reads the terminating zero.
Deref(s, i) == IF i >= 1 /\ i <= Len(s) THEN s[i] ELSE Sentinel

(***************************************************************************)
(* Predicates handed to satisfy.                                           *)
(***************************************************************************)
IsDigit(c) == c \in 48..57
IsAlpha(c) == c \in (65..90) \cup (97..122)
IsSpace(c) == c \in (9..13) \cup {32}

cond(p, s) ==
    CASE p.kind = "true" -> TRUE
      [] p.kind = "isdigit" -> IsDigit(s)
      [] p.kind = "isalpha" -> IsAlpha(s)
      [] p.kind = "isalnum" -> IsAlpha(s) \/ IsDigit(s)
      [] p.kind = "isspace" -> IsSpace(s)
      [] p.kind = "eq" -> p.c = s
      [] p.kind = "ne" -> p.c # s

(***************************************************************************)
(* Parser constructors (the closures' captured parameters).                *)
(***************************************************************************)
SatisfyP(k, c) == [op |-> "satisfy", cond |-> [kind |-> k, c |-> c]]
any_char == SatisfyP("true", Sentinel)
digit == SatisfyP("isdigit", Sentinel)
alphabet == SatisfyP("isalpha", Sentinel)
alphanumeric == SatisfyP("isalnum", Sentinel)
whitespace == SatisfyP("isspace", Sentinel)
character(c) == SatisfyP("eq", c)
exclude(c) == SatisfyP("ne", c)
StringP(lit) == [op |-> "string", lit |-> lit]
RepP(n, p) == [op |-> "rep", n |-> n, parser |-> p]
ManyP(p) == [op |-> "many", parser |-> p]
IgnoreP(p) == [op |-> "ignore", parser |-> p]
BackP(p) == [op |-> "back", parser |-> p]
PeekP(p) == [op |-> "peek", parser |-> p]
PlusP(f, g) == [op |-> "plus", f |-> f, g |-> g]
OrP(f, g) == [op |-> "or", f |-> f, g |-> g]

\* The closure returns char (TRUE) or std::string (FALSE).
RECURSIVE ReturnsChar(_)
ReturnsChar(p) ==
    CASE p.op = "satisfy" -> TRUE
      [] p.op \in {"string", "rep", "many", "ignore"} -> FALSE
      [] p.op \in {"back", "peek"} -> ReturnsChar(p.parser)
      [] p.op \in {"plus", "or"} -> ReturnsChar(p.f)

(***************************************************************************)
(* The closures.  Run(p, s, i) invokes parser p on buffer s with the       *)
(* cursor at i.                                                            *)
(***************************************************************************)
RECURSIVE Run(_, _, _)

\* C1 mutant: the cursor is advanced before the predicate is evaluated.
satisfyAdvanceFirst(p, s, i) ==
    IF Deref(s, i) = Sentinel THEN Fail(i, i)
    ELSE IF cond(p, Deref(s, i)) THEN Ok(Chr(Deref(s, i)), i + 1, i + 1)
    ELSE Fail(i + 1, i + 1)

\* C10 mutant: no end-of-string test.
satisfyNoEnd(p, s, i) ==
    IF cond(p, Deref(s, i)) THEN Ok(Chr(Deref(s, i)), i + 1, i + 1)
    ELSE Fail(i, i)

\* satisfy(cond), lines 13-27
satisfy(p, s, i) ==
    IF Deref(s, i) = Sentinel THEN Fail(i, i)
    ELSE IF cond(p, Deref(s, i)) THEN Ok(Chr(Deref(s, i)), i + 1, i + 1)
    ELSE Fail(i, i)

\* string(str), lines 105-115: the for loop from character k of the literal.
RECURSIVE stringLoop(_, _, _, _)
stringLoop(lit, k, s, i) ==
    IF k > Len(lit) THEN Ok(Str(lit), i, i)
    ELSE IF Deref(s, i) # lit[k] THEN Fail(i, i)
    ELSE stringLoop(lit, k + 1, s, i + 1)

\* C4 mutant: the cursor is put back when the literal does not match.
stringRestoring(lit, s, i) ==
    LET r == stringLoop(lit, 1, s, i)
    IN IF r.outcome = "fail" THEN Fail(i, r.hi) ELSE r

string(lit, s, i) == stringLoop(lit, 1, s, i)

\* rep(n, parser), lines 32-41: the for loop from iteration k.
\* r is what the iteration's one invocation of the operand did.
RECURSIVE repLoop(_, _, _, _, _, _, _)
repLoop(n, p, s, i, h, k, result) ==
    IF k >= n THEN Ok(Str(result), i, h)
    ELSE Only({IF r.outcome # "ok" THEN [r EXCEPT !.hi = Max(h, r.hi)]
               ELSE repLoop(n, p, s, r.pos, Max(h, r.hi), k + 1,
                            StrAppend(result, r.value)) :
               r \in {Run(p, s, i)}})

\* C6 mutant: the loop runs one time too many (i <= n).
repOffByOne(n, p, s, i) == repLoop(n + 1, p, s, i, i, 0, <<>>)

rep(n, p, s, i) == repLoop(n, p, s, i, i, 0, <<>>)

\* ignore(parser), lines 47-53
ignore(p, s, i) ==
    LET r == Run(p, s, i)
    IN IF r.outcome = "ok" THEN Ok(Str(<<>>), r.pos, r.hi) ELSE r

\* many(parser), lines 64-77: the while loop.  Closures are stateless, so an
\* iteration that succeeds and leaves the cursor where it was is followed by
\* the same iteration again.  If it returns "" the loop never ends; if it
\* returns a non-empty value, result grows every time round until
\* result += throws std::bad_alloc, which catch (std::runtime_error&) does
\* not catch: operator new grants no block larger than MaxHeap, and the
\* requests double.  An exception of the operand other than
\* std::runtime_error leaves the loop too.  A loop that advances ends with
\* the input; the results of the explored inputs fit a granted block.
\* r is what the iteration's one invocation of the operand did.
RECURSIVE manyLoop(_, _, _, _, _)
manyLoop(p, s, i, h, result) ==
    Only({CASE r.outcome = "hang" -> Hang(r.pos, Max(h, r.hi))
            [] r.outcome = "bad_alloc" -> BadAlloc(r.pos, Max(h, r.hi))
            [] r.outcome = "fail" -> Ok(Str(result), r.pos, Max(h, r.hi))
            [] r.outcome = "ok" ->
                 IF r.pos # i
                 THEN manyLoop(p, s, r.pos, Max(h, r.hi),
                               StrAppend(result, r.value))
                 ELSE IF r.value.s = <<>> THEN Hang(i, Max(h, r.hi))
                 ELSE BadAlloc(i, Max(h, r.hi)) :
          r \in {Run(p, s, i)}})

\* C5 mutant: at least one match is required (the first failure is rethrown).
manyAtLeastOne(p, s, i) ==
    LET r == Run(p, s, i)
    IN IF r.outcome = "fail" THEN r ELSE manyLoop(p, s, i, i, <<>>)

many(p, s, i) == manyLoop(p, s, i, i, <<>>)

\* C2 mutant: the catch block rethrows without str_iter = pos.
backNoRestore(p, s, i) == Run(p, s, i)

\* back(parser), lines 121-132: only std::runtime_error is caught.
back(p, s, i) ==
    LET r == Run(p, s, i)
    IN IF r.outcome = "fail" THEN Fail(i, r.hi) ELSE r

\* C3 mutant: the cursor is restored in the catch block only.
peekRestoreOnFailOnly(p, s, i) ==
    LET r == Run(p, s, i)
    IN IF r.outcome = "fail" THEN Fail(i, r.hi) ELSE r

\* peek(parser), lines 141-154: only std::runtime_error is caught.
peek(p, s, i) ==
    LET r == Run(p, s, i)
    IN CASE r.outcome = "ok" -> Ok(r.value, i, r.hi)
         [] r.outcome = "fail" -> Fail(i, r.hi)
         [] r.outcome \in {"hang", "bad_alloc"} -> r

\* operator+, lines 164-171
operator_plus(f, g, s, i) ==
    LET rf == Run(f, s, i)
    IN IF rf.outcome # "ok" THEN rf
       ELSE LET rg == Run(g, s, rf.pos)
                h == Max(rf.hi, rg.hi)
            IN IF rg.outcome # "ok" THEN [rg EXCEPT !.hi = h]
               ELSE Ok(PlusValue(rf.value, rg.value), rg.pos, h)

\* C7 mutant: the second alternative is tried from the original position.
orBacktracking(f, g, s, i) ==
    LET rf == Run(f, s, i)
    IN IF rf.outcome # "fail" THEN rf
       ELSE LET rg == Run(g, s, i)
            IN [rg EXCEPT !.hi = Max(rf.hi, rg.hi)]

\* operator|, lines 173-182
operator_or(f, g, s, i) ==
    LET rf == Run(f, s, i)
    IN IF rf.outcome # "fail" THEN rf
       ELSE LET rg == Run(g, s, rf.pos)
            IN [rg EXCEPT !.hi = Max(rf.hi, rg.hi)]

Run(p, s, i) ==
    CASE p.op = "satisfy" -> satisfy(p.cond, s, i)
      [] p.op = "string" -> string(p.lit, s, i)
      [] p.op = "rep" -> rep(p.n, p.parser, s, i)
      [] p.op = "many" -> many(p.parser, s, i)
      [] p.op = "ignore" -> ignore(p.parser, s, i)
      [] p.op = "back" -> back(p.parser, s, i)
      [] p.op = "peek" -> peek(p.parser, s, i)
      [] p.op = "plus" -> operator_plus(p.f, p.g, s, i)
      [] p.op = "or" -> operator_or(p.f, p.g, s, i)

(***************************************************************************)
(* The parsers and inputs explored.                                        *)
(***************************************************************************)
SeqsUpTo(S, n) == UNION {[1..k -> S] : k \in 0..n}

Primitives ==
    {any_char, digit, alphabet, alphanumeric, whitespace}
        \cup {character(c) : c \in LitChars} \cup {exclude(c) : c \in LitChars}
Literals == {StringP(l) : l \in SeqsUpTo(LitChars, MaxLit)}
Atoms == Primitives \cup Literals

Unary(S) ==
    {RepP(n, p) : n \in 0..MaxRep, p \in S} \cup {ManyP(p) : p \in S}
        \cup {IgnoreP(p) : p \in S} \cup {BackP(p) : p \in S}
        \cup {PeekP(p) : p \in S}

\* f + g compiles unless f returns char and g a string; f | g needs both
\* closures to return the same type.
Binary(S, T) ==
    {PlusP(f, g) : f \in {x \in S : ~ReturnsChar(x)}, g \in T}
        \cup {PlusP(f, g) : f \in {x \in S : ReturnsChar(x)},
                            g \in {y \in T : ReturnsChar(y)}}
        \cup {OrP(f, g) : f \in {x \in S : ReturnsChar(x)},
                          g \in {y \in T : ReturnsChar(y)}}
        \cup {OrP(f, g) : f \in {x \in S : ~ReturnsChar(x)},
                          g \in {y \in T : ~ReturnsChar(y)}}

Level1 == Unary(Atoms) \cup Binary(Atoms, Atoms)

\* Operands of the nested sequences and alternations: a few primitives and
\* literals ("", "a", "a1") and every combinator over them.
Kernel ==
    {any_char, character(97), StringP(<<>>), StringP(<<97>>),
     StringP(<<97, 49>>)}
Compound == Kernel \cup Unary(Kernel)

\* Loop bodies that consume an 'a' and otherwise succeed without moving the
\* cursor, with a value ('a' | peek(any_char)) or without ("a" | "").
StallingBodies ==
    {OrP(character(97), PeekP(any_char)), OrP(StringP(<<97>>), StringP(<<>>))}
Stalling == {ManyP(p) : p \in StallingBodies}

Parsers ==
    Atoms \cup Level1 \cup Unary(Level1) \cup Binary(Compound, Compound)
        \cup Stalling \cup Unary(Stalling)
        \cup Binary(Stalling, Kernel) \cup Binary(Kernel, Stalling)

\* Buffers; a zero byte inside the buffer is read as the end of input too.
Inputs == SeqsUpTo(InputChars, MaxLen)
\* Buffers whose only zero byte is the terminator.
TextInputs == SeqsUpTo(LitChars, MaxLen)

\* The parsers and inputs of src/test/parse_test.cc (lines 4-113) and the
\* alternation "ab" | "ac" on "ac".  'a'..'f' are 97..102, ' ' is 32.
abcOrDef == OrP(StringP(<<97, 98, 99>>), StringP(<<100, 101, 102>>))
abOrAc == OrP(StringP(<<97, 98>>), StringP(<<97, 99>>))
trimmedAbc ==
    PlusP(PlusP(IgnoreP(ManyP(whitespace)), StringP(<<97, 98, 99>>)),
          IgnoreP(ManyP(whitespace)))
Scenarios ==
    { [str |-> <<97, 98, 99>>, parser |-> any_char],
      [str |-> <<97, 98, 99>>, parser |-> RepP(2, any_char)],
      [str |-> <<97, 98, 99, 100, 101, 102>>,
       parser |-> StringP(<<97, 98, 99>>)],
      [str |-> <<97, 98, 99, 100, 101, 102>>, parser |-> abcOrDef],
      [str |-> <<97, 99>>, parser |-> abOrAc],
      [str |-> <<32, 32, 32, 97, 98, 99, 32, 32, 32>>, parser |-> trimmedAbc],
      [str |-> <<97, 98, 99, 97, 98, 99>>, parser |-> ManyP(any_char)],
      [str |-> <<97, 98, 99>>, parser |-> BackP(StringP(<<97, 99, 98>>))],
      [str |-> <<97, 98, 99>>, parser |-> PeekP(StringP(<<97, 98>>))],
      [str |-> <<32, 32, 32, 97, 98, 99, 32, 32, 32>>,
       parser |-> ManyP(whitespace)] }

(***************************************************************************)
(* State: one parser object invoked repeatedly on one cursor, as the       *)
(* callers in src/test/parse_test.cc do.                                   *)
(***************************************************************************)
VARIABLES
    str,       \* the input buffer
    parser,    \* the parser object
    it,        \* the cursor
    from,      \* the cursor when the last invocation started
    outcome,   \* "none", or how the last invocation ended
    value,     \* the value the last invocation returned
    hi,        \* furthest position the cursor has held
    ncalls,    \* invocations made
    pc,        \* position inside many's loop (SpecLoop)
    result,    \* many's accumulator (SpecLoop)
    capacity   \* result.capacity() (SpecLoop)

vars ==
    <<str, parser, it, from, outcome, value, hi, ncalls, pc, result,
      capacity>>

Start(inputs, parsers) ==
    /\ str \in inputs
    /\ parser \in parsers
    /\ it = 1
    /\ from = 1
    /\ outcome = "none"
    /\ value = NoValue
    /\ hi = 1
    /\ ncalls = 0
    /\ pc = "idle"
    /\ result = <<>>
    /\ capacity = InlineCapacity

Init ==
    \/ Start(Inputs, Parsers)
    \/ \E sc \in Scenarios : Start({sc.str}, {sc.parser})

\* The caller invokes parser(it); r is what the closure does.
Invoke(r) ==
    /\ from' = it
    /\ outcome' = r.outcome
    /\ value' = r.value
    /\ it' = r.pos
    /\ hi' = Max(hi, r.hi)
    /\ ncalls' = ncalls + 1
    /\ UNCHANGED <<str, parser, pc, result, capacity>>

\* A call is made once the previous one has returned or thrown (a caller
\* that catches the exception goes on with the same cursor).
CanCall == pc = "idle" /\ outcome # "hang" /\ ncalls < MaxCalls

InvokeSatisfy ==
    /\ CanCall /\ parser.op = "satisfy"
    /\ Invoke(satisfy(parser.cond, str, it))

InvokeString ==
    /\ CanCall /\ parser.op = "string"
    /\ Invoke(string(parser.lit, str, it))

InvokeRep ==
    /\ CanCall /\ parser.op = "rep"
    /\ Invoke(rep(parser.n, parser.parser, str, it))

InvokeMany ==
    /\ CanCall /\ parser.op = "many"
    /\ Invoke(many(parser.parser, str, it))

InvokeIgnore ==
    /\ CanCall /\ parser.op = "ignore"
    /\ Invoke(ignore(parser.parser, str, it))

InvokeBack ==
    /\ CanCall /\ parser.op = "back"
    /\ Invoke(back(parser.parser, str, it))

InvokePeek ==
    /\ CanCall /\ parser.op = "peek"
    /\ Invoke(peek(parser.parser, str, it))

InvokePlus ==
    /\ CanCall /\ parser.op = "plus"
    /\ Invoke(operator_plus(parser.f, parser.g, str, it))

InvokeOr ==
    /\ CanCall /\ parser.op = "or"
    /\ Invoke(operator_or(parser.f, parser.g, str, it))

Next ==
    \/ InvokeSatisfy
    \/ InvokeString
    \/ InvokeRep
    \/ InvokeMany
    \/ InvokeIgnore
    \/ InvokeBack
    \/ InvokePeek
    \/ InvokePlus
    \/ InvokeOr

Spec == Init /\ [][Next]_vars

(***************************************************************************)
(* many's while loop, one iteration at a time (lines 66-76).               *)
(***************************************************************************)
\* Loop bodies: every primitive and literal, every combinator over them and
\* over pairs of the kernel, and bodies that stall: at once (peek), after
\* consuming (a | ..), or inside a nested many, whose std::bad_alloc passes
\* through back.
NestedStall ==
    {ManyP(PeekP(any_char)), BackP(ManyP(PeekP(any_char)))}
ManyParsers ==
    {ManyP(p) : p \in Atoms \cup Unary(Atoms) \cup Binary(Kernel, Kernel)
                        \cup StallingBodies \cup Stalling \cup NestedStall}

\* An input longer than InlineCapacity, every character of which the loop
\* body consumes.
sixteenAs == [k \in 1..(InlineCapacity + 1) |-> 97]

InitLoop ==
    \/ Start(TextInputs, ManyParsers)
    \/ \E sc \in {x \in Scenarios : x.parser.op = "many"} :
            Start({sc.str}, {sc.parser})
    \/ Start({sixteenAs}, {ManyP(any_char), ManyP(StringP(<<97>>))})

\* The caller invokes the closure: std::string result;
manyEnter ==
    /\ CanCall /\ parser.op = "many"
    /\ pc' = "loop"
    /\ result' = <<>>
    /\ capacity' = InlineCapacity
    /\ from' = it
    /\ outcome' = "none"
    /\ value' = NoValue
    /\ UNCHANGED <<str, parser, it, hi, ncalls>>

\* The exception leaves the closure: the call has ended.
Throw(what) ==
    /\ pc' = "idle"
    /\ outcome' = what
    /\ value' = NoValue
    /\ ncalls' = ncalls + 1
    /\ UNCHANGED <<result, capacity>>

\* result += v when size() + v.size() exceeds capacity(): the string asks
\* operator new for a block of twice the capacity, or of the new size if that
\* is larger, and one byte for the terminator.
Reserve(cap, n) == Max(n, 2 * cap)
Granted(cap) == cap + 1 <= MaxHeap

\* C9 mutant: the loop is left when an iteration consumed nothing.
manyTryGuarded ==
    /\ pc = "loop"
    /\ \E r \in {Run(parser.parser, str, it)} :
       LET grown == StrAppend(result, r.value)
       IN /\ r.outcome # "hang"
          /\ it' = r.pos
          /\ hi' = Max(hi, r.hi)
          /\ CASE r.outcome = "ok" /\ r.pos # it ->
                    /\ pc' = "loop"
                    /\ result' = grown
                    /\ capacity' = IF Len(grown) <= capacity THEN capacity
                                   ELSE Reserve(capacity, Len(grown))
                    /\ UNCHANGED <<outcome, value, ncalls>>
               [] r.outcome = "bad_alloc" -> Throw("bad_alloc")
               [] OTHER ->
                    /\ pc' = "break"
                    /\ UNCHANGED <<outcome, value, ncalls, result, capacity>>
    /\ UNCHANGED <<str, parser, from>>

\* try { result += parser(str_iter); } catch (std::runtime_error&) { break; }
\* The step is taken when the inner invocation returns or throws.  The value
\* is appended in every iteration whose invocation returns, whether or not
\* the cursor moved; an append that does not fit the capacity takes a new
\* block, and std::bad_alloc leaves the loop when operator new refuses it.
manyTry ==
    /\ pc = "loop"
    /\ \E r \in {Run(parser.parser, str, it)} :
       LET grown == StrAppend(result, r.value)
           fits == Len(grown) <= capacity
           reserve == Reserve(capacity, Len(grown))
       IN /\ r.outcome # "hang"
          /\ it' = r.pos
          /\ hi' = Max(hi, r.hi)
          /\ CASE r.outcome = "ok" /\ fits ->
                    /\ pc' = "loop"
                    /\ result' = grown
                    /\ UNCHANGED <<outcome, value, ncalls, capacity>>
               [] r.outcome = "ok" /\ ~fits /\ Granted(reserve) ->
                    /\ pc' = "loop"
                    /\ result' = grown
                    /\ capacity' = reserve
                    /\ UNCHANGED <<outcome, value, ncalls>>
               [] r.outcome = "ok" /\ ~fits /\ ~Granted(reserve) ->
                    Throw("bad_alloc")
               [] r.outcome = "bad_alloc" -> Throw("bad_alloc")
               [] r.outcome = "fail" ->
                    /\ pc' = "break"
                    /\ UNCHANGED <<outcome, value, ncalls, result, capacity>>
    /\ UNCHANGED <<str, parser, from>>

\* return result;
manyReturn ==
    /\ pc = "break"
    /\ pc' = "idle"
    /\ outcome' = "ok"
    /\ value' = Str(result)
    /\ ncalls' = ncalls + 1
    /\ UNCHANGED <<str, parser, it, from, hi, result, capacity>>

NextLoop ==
    \/ manyEnter
    \/ manyTry
    \/ manyReturn

\* A parse is single-threaded and runs to completion: a loop that can take
\* a step takes it.
SpecLoop == InitLoop /\ [][NextLoop]_vars /\ WF_vars(NextLoop)

TypeOK ==
    /\ it \in 1..(Len(str) + 1)
    /\ outcome \in {"none", "ok", "fail", "bad_alloc", "hang"}
    /\ capacity \in InlineCapacity..(MaxHeap - 1)
    /\ Len(result) <= capacity

(***************************************************************************)
(* Properties.                                                             *)
(***************************************************************************)
\* The last invocation has returned or thrown.
Returned == outcome \in {"ok", "fail"}
\* The position of the first zero byte at or after position 1.
FirstZero(s) == CHOOSE i \in 1..(Len(s) + 1) :
    Deref(s, i) = Sentinel /\ \A j \in 1..(i - 1) : Deref(s, j) # Sentinel

\* C1: satisfy(p) succeeds, returns the character c under the cursor and
\* advances the cursor by exactly one iff the cursor is not at the end of
\* the sequence (the zero sentinel) and p(c) holds; otherwise it fails and
\* the cursor is unchanged.
C1_SatisfyAtomic ==
    (parser.op = "satisfy" /\ outcome # "none") =>
        LET c == Deref(str, from)
        IN IF c # Sentinel /\ cond(parser.cond, c)
           THEN outcome = "ok" /\ value = Chr(c) /\ it = from + 1
           ELSE outcome = "fail" /\ it = from

\* A satisfy that succeeded and, invoked again, failed on a character that is
\* present but rejected by the predicate.
C1_Witness ==
    /\ parser.op = "satisfy" /\ ncalls = 2 /\ from = 2
    /\ outcome = "fail" /\ it = from /\ Deref(str, from) # Sentinel

\* C2: if p invoked from x fails, back(p) invoked from x fails and the cursor
\* is x afterwards, however far p moved it; if p succeeds, back(p) returns p's
\* result and leaves the cursor where p left it.
C2_BackAtomic ==
    (parser.op = "back" /\ outcome # "none") =>
        LET r == Run(parser.parser, str, from)
        IN /\ r.outcome = "fail" => (outcome = "fail" /\ it = from)
           /\ r.outcome = "ok" =>
                (outcome = "ok" /\ value = r.value /\ it = r.pos)

\* back(p) failed from x where p alone leaves the cursor beyond x.
C2_Witness ==
    /\ parser.op = "back" /\ outcome = "fail" /\ it = from
    /\ Run(parser.parser, str, from).pos > from

\* C3: peek(p) leaves the cursor where it was, returning p's result when p
\* succeeds and failing when p fails.
C3_PeekNoAdvance ==
    (parser.op = "peek" /\ outcome # "none") =>
        LET r == Run(parser.parser, str, from)
        IN /\ Returned => it = from
           /\ r.outcome = "ok" => (outcome = "ok" /\ value = r.value)
           /\ r.outcome = "fail" => outcome = "fail"

\* peek(p) succeeded where p alone consumes input.
C3_Witness ==
    /\ parser.op = "peek" /\ outcome = "ok" /\ it = from
    /\ Run(parser.parser, str, from).pos > from

\* The length of the longest prefix of lit that matches the input at i.
MatchLen(lit, s, i) ==
    CHOOSE k \in 0..Len(lit) :
        /\ \A j \in 1..k : Deref(s, i + j - 1) = lit[j]
        /\ k < Len(lit) => Deref(s, i + k) # lit[k + 1]

\* C4: string(s) advances the cursor by the length of the longest prefix of s
\* matching the input at the cursor; it succeeds and returns s when that is
\* all of s, and fails (cursor not restored) when it is a strict prefix.
C4_StringPrefix ==
    (parser.op = "string" /\ outcome # "none") =>
        LET k == MatchLen(parser.lit, str, from)
        IN /\ it = from + k
           /\ k = Len(parser.lit) => (outcome = "ok" /\ value = Str(parser.lit))
           /\ k < Len(parser.lit) => outcome = "fail"

\* string(s) failed after matching a non-empty strict prefix of s.
C4_Witness ==
    /\ parser.op = "string" /\ outcome = "fail" /\ it > from

\* C5 as stated: many(p) never fails, where p's first invocation fails it
\* returns "" and leaves the cursor unchanged, and a second call right after
\* a first returns "" without moving the cursor.
C5_Original ==
    (parser.op = "many" /\ outcome # "none") =>
        /\ outcome # "fail"
        /\ Run(parser.parser, str, from).outcome = "fail" =>
              (outcome = "ok" /\ value = Str(<<>>) /\ it = from)
        /\ (ncalls >= 2 /\ Returned) => (value = Str(<<>>) /\ it = from)

\* p fails in place: a failing invocation (anywhere up to the sentinel) leaves
\* the cursor where it was.
FailsInPlace(p, s) ==
    \A i \in 1..FirstZero(s) :
        Run(p, s, i).outcome = "fail" => Run(p, s, i).pos = i

\* C5 (amended): many(p) never signals failure (std::runtime_error); where p's first invocation fails it
\* returns "" and leaves the cursor where that failing invocation left it,
\* which is the start position when p fails in place; for a p that fails in
\* place, a second call right after a first returns "" without moving the
\* cursor.
C5_ManyOnFailure ==
    (parser.op = "many" /\ outcome # "none") =>
        LET r == Run(parser.parser, str, from)
        IN /\ outcome # "fail"
           /\ r.outcome = "fail" =>
                 (outcome = "ok" /\ value = Str(<<>>) /\ it = r.pos)
           /\ (ncalls >= 2 /\ Returned /\ FailsInPlace(parser.parser, str)) =>
                 (value = Str(<<>>) /\ it = from)

\* many(p) returned "" although the cursor moved: p failed after consuming.
C5_Witness ==
    /\ parser.op = "many" /\ outcome = "ok"
    /\ value = Str(<<>>) /\ it > from
    /\ Run(parser.parser, str, from).outcome = "fail"

\* The results of up to n consecutive invocations of p from i, ending with
\* the first one that does not succeed.
RECURSIVE Invocations(_, _, _, _)
Invocations(p, s, i, n) ==
    IF n = 0 THEN <<>>
    ELSE LET r == Run(p, s, i)
         IN IF r.outcome # "ok" THEN <<r>>
            ELSE <<r>> \o Invocations(p, s, r.pos, n - 1)

RECURSIVE Concat(_)
Concat(rs) == IF rs = <<>> THEN <<>> ELSE rs[1].value.s \o Concat(Tail(rs))

\* C6: rep(n, p) succeeds iff p succeeds n consecutive times from the start
\* position; it then returns the concatenation of the n results with the
\* cursor where the n-th invocation left it; if an invocation fails, rep
\* fails with the cursor where that invocation left it.
C6_RepConsecutive ==
    (parser.op = "rep" /\ outcome # "none") =>
        LET rs == Invocations(parser.parser, str, from, parser.n)
            allOk == Len(rs) = parser.n
                        /\ \A k \in 1..Len(rs) : rs[k].outcome = "ok"
        IN /\ outcome = "ok" <=> allOk
           /\ allOk =>
                /\ value = Str(Concat(rs))
                /\ it = IF parser.n = 0 THEN from ELSE rs[parser.n].pos
           /\ (rs # <<>> /\ rs[Len(rs)].outcome = "fail") =>
                (outcome = "fail" /\ it = rs[Len(rs)].pos)

\* rep(2, p) failed at its second invocation, which itself moved the cursor.
C6_Witness ==
    /\ parser.op = "rep" /\ parser.n = 2 /\ outcome = "fail"
    /\ LET rs == Invocations(parser.parser, str, from, 2)
       IN Len(rs) = 2 /\ rs[2].pos > rs[1].pos /\ it = rs[2].pos

\* C7: f | g returns f's result when f succeeds (g is not invoked); when f
\* fails, g is invoked from where f left the cursor and its outcome is the
\* outcome.  "ab" | "ac" on "ac" fails; "abc" | "def" applied repeatedly to
\* "abcdef" returns "abc", then "def", then fails.
C7_OrNoRollback ==
    /\ (parser.op = "or" /\ outcome # "none") =>
          LET rf == Run(parser.f, str, from)
              rg == Run(parser.g, str, rf.pos)
          IN /\ rf.outcome = "ok" =>
                  (outcome = "ok" /\ value = rf.value /\ it = rf.pos)
             /\ rf.outcome = "fail" =>
                  (outcome = rg.outcome /\ value = rg.value /\ it = rg.pos)
    /\ (parser = abOrAc /\ str = <<97, 99>> /\ outcome # "none") =>
          outcome = "fail"
    /\ (parser = abcOrDef /\ str = <<97, 98, 99, 100, 101, 102>>) =>
          /\ ncalls = 1 => (outcome = "ok" /\ value = Str(<<97, 98, 99>>))
          /\ ncalls = 2 => (outcome = "ok" /\ value = Str(<<100, 101, 102>>))
          /\ ncalls = 3 => outcome = "fail"

\* "ab" | "ac" has failed on "ac" with the cursor left after the 'a'.
C7_Witness ==
    /\ parser = abOrAc /\ str = <<97, 99>>
    /\ outcome = "fail" /\ from = 1 /\ it = 2

\* C8 as stated: f + g invokes f, then g from where f left the cursor; on
\* success it returns f's result followed by g's result; if f fails the
\* cursor is where f left it, if g fails it is where g left it.
C8_PlusConcatenates ==
    (parser.op = "plus" /\ outcome # "none") =>
        LET rf == Run(parser.f, str, from)
            rg == Run(parser.g, str, rf.pos)
        IN /\ rf.outcome = "fail" => (outcome = "fail" /\ it = rf.pos)
           /\ (rf.outcome = "ok" /\ rg.outcome = "fail") =>
                (outcome = "fail" /\ it = rg.pos)
           /\ (rf.outcome = "ok" /\ rg.outcome = "ok") =>
                /\ outcome = "ok" /\ it = rg.pos
                /\ value.s = rf.value.s \o rg.value.s

\* C10: the cursor never moves past the zero sentinel, during or after an
\* invocation; at the sentinel, satisfy and every non-empty literal fail
\* without moving it.
C10_SentinelBound ==
    /\ hi <= FirstZero(str)
    /\ it <= FirstZero(str)
    /\ ( /\ outcome # "none"
         /\ Deref(str, from) = Sentinel
         /\ \/ parser.op = "satisfy"
            \/ parser.op = "string" /\ parser.lit # <<>> ) =>
          (outcome = "fail" /\ it = from)

\* A non-empty literal was tried with the cursor at the end of a non-empty
\* input that it had consumed.
C10_Witness ==
    /\ parser.op = "string" /\ parser.lit # <<>>
    /\ from = Len(str) + 1 /\ from > 1 /\ ncalls >= 2
    /\ outcome = "fail" /\ it = from

(***************************************************************************)
(* Termination of many (SpecLoop).                                         *)
(***************************************************************************)
\* Every invocation of p on s returns or signals failure, and every
\* successful one advances.
Progressive(p, s) ==
    \A i \in 1..FirstZero(s) :
        LET r == Run(p, s, i)
        IN r.outcome \in {"ok", "fail"} /\ (r.outcome = "ok" => r.pos > i)

\* p succeeds somewhere on s (up to its sentinel) without advancing the cursor.
CanStall(p, s) ==
    \E i \in 1..FirstZero(s) :
        LET r == Run(p, s, i) IN r.outcome = "ok" /\ r.pos = i

\* The loop is at an iteration where p succeeds without advancing.
Stalled ==
    /\ pc = "loop"
    /\ LET r == Run(parser.parser, str, it)
       IN r.outcome = "ok" /\ r.pos = it
\* ... returning the empty string, or a value.
StalledEmpty == Stalled /\ Run(parser.parser, str, it).value.s = <<>>
StalledGrowing == Stalled /\ Run(parser.parser, str, it).value.s # <<>>

\* C9 as stated (second half): when p can succeed without advancing the
\* cursor, many(p) loops forever: the invocation never ends.
C9_Original ==
    CanStall(parser.parser, str) => outcome = "none"

\* C9 (amended): many(p) returns whenever every invocation of p returns or
\* fails and every successful one advances the cursor.  Once an iteration's
\* invocation of p, from the position the loop has reached, succeeds without
\* advancing, many(p) never returns a value: it loops forever if p's value
\* there is empty (always so for p = string("")), and grows its result until
\* std::bad_alloc leaves the loop if the value is not empty.  many(many(q))
\* never returns a value.
C9_ManyTermination ==
    /\ (pc = "loop" /\ (Progressive(parser.parser, str) \/ StalledGrowing))
            ~> (/\ pc = "idle"
                /\ outcome = IF Progressive(parser.parser, str)
                             THEN "ok" ELSE "bad_alloc")
    /\ [][/\ StalledEmpty => StalledEmpty'
          /\ StalledGrowing => (StalledGrowing' \/ outcome' = "bad_alloc")]_vars
    /\ [](/\ parser.parser = StringP(<<>>) => outcome = "none"
          /\ parser.parser.op = "many" => outcome # "ok")

\* many(peek(q)) is stalled with q's value accumulated beyond the inline
\* capacity, in a block operator new granted.
C9_Witness ==
    /\ Stalled /\ parser.parser.op = "peek"
    /\ Len(result) > InlineCapacity /\ capacity > InlineCapacity

\* The loop's steps add up to what many computes in one go.
ManyStepsAgree ==
    (parser.op = "many" /\ outcome \in {"ok", "bad_alloc"}) =>
        LET r == many(parser.parser, str, from)
        IN r.outcome = outcome /\ r.pos = it /\ r.value = value

====
